---- MODULE Spec2Model ----
(***************************************************************************)
(* Model of the traffic-light pattern detector                             *)
(* (src/app/services/pattern_detector.py).                                 *)
(*                                                                         *)
(* Instants are integers: milliseconds since midnight of day 0, on the one *)
(* time axis (one timezone awareness) that all timestamps of a detector    *)
(* and its clock share.  Durations and cycle times are milliseconds.       *)
(* Python's None is the empty tuple, a present value v is <<v>>.  A dict   *)
(* is a record whose DOMAIN is the dict's key set.  An ISO-8601 string is  *)
(* represented by the instant it denotes (isoformat is injective).         *)
(***************************************************************************)
EXTENDS Integers, Sequences, FiniteSets, TLC

-----------------------------------------------------------------------------
(* Units *)

MsPerMinute == 60 * 1000
MsPerHour == 60 * MsPerMinute
MsPerDay == 24 * MsPerHour

\* datetime(day, hour, minute) as an instant
At(day, hour, minute) == day * MsPerDay + hour * MsPerHour + minute * MsPerMinute

-----------------------------------------------------------------------------
(* Bounds of the model: the inputs analyze() is run on *)

\* longest measurement list
MaxN == 4

\* longest list in an input whose two lists differ in length
MaxMismatch == 3

\* green-phase start times the inputs are drawn from
Instants ==
    { At(0, 8, 0), At(0, 8, 20), At(0, 8, 30), At(0, 8, 40),
      At(1, 8, 0), At(2, 8, 0) }

\* green-phase durations (ms) the inputs are drawn from: in the ratio 5 : 7,
\* with means that are not whole numbers of milliseconds
Durations == { 30005, 42007 }

\* values the wall clock may show when analyze() reads it
Nows == { At(0, 8, 35), At(0, 8, 50), At(2, 8, 10) }

\* longest measurement list given to the timeline generator and the validator
MaxSeries == 3

\* start times of their inputs: a 20-minute cycle, a start 3 s off it, and
\* a 100-minute gap across midnight
SeriesInstants ==
    { At(0, 8, 0), At(0, 8, 20), At(0, 8, 40), At(0, 8, 40) + 3000,
      At(0, 23, 0), At(1, 0, 40) }

\* durations (ms) of their inputs: a normal green phase and one that
\* outlasts two cycles
SeriesDurations == { 30005, 40 * MsPerMinute }

\* reference dates (as days) and window lengths (hours) of the timelines
ReferenceDates == { 0, 2 }
WindowHours == { 1, 24 }

\* tolerances (ms) of the validations: the default and a tighter one
Tolerances == { 5000, 1000 }

-----------------------------------------------------------------------------
(* Program constants *)

\* _get_time_bucket(ts, bucket_minutes=30)
BucketMinutes == 30

\* "roughly 24 hours apart (20-28 hours)"
DailyMinHours == 20
DailyMaxHours == 28

\* "Only consider cycles less than 30 minutes"
ShortCycleLimitMs == 30 * 60 * 1000

\* variance < 0.1 and variance < 0.2, in thousandths
RegularPermille == 100
SomewhatRegularPermille == 200

\* hours_since >= 20
StaleHours == 20

\* stdev needs total_captures >= 3
MinCapturesForStdev == 3

-----------------------------------------------------------------------------
(* Python values *)

None == << >>
Some(v) == << v >>
Get(o) == o[1]

Min2(a, b) == IF a <= b THEN a ELSE b

\* int(x / y) for y > 0: truncation toward zero
TruncDiv(a, b) == IF a >= 0 THEN a \div b ELSE -((-a) \div b)

RECURSIVE SumSeq(_)
SumSeq(s) == IF s = << >> THEN 0 ELSE Head(s) + SumSeq(Tail(s))

RECURSIVE SumSquares(_)
SumSquares(s) == IF s = << >> THEN 0 ELSE Head(s) * Head(s) + SumSquares(Tail(s))

\* min(list) taken to be the first element, as of a sorted list
MinSeq_First(s) == s[1]

\* min(list), max(list)
MinSeq(s) == CHOOSE x \in { s[i] : i \in 1..Len(s) } : \A i \in 1..Len(s) : x <= s[i]
MaxSeq(s) == CHOOSE x \in { s[i] : i \in 1..Len(s) } : \A i \in 1..Len(s) : x >= s[i]

\* mean(list) rounded half up instead of cut by int()
IntMean_Rounded(s) == (2 * SumSeq(s) + Len(s)) \div (2 * Len(s))

\* int(mean(list)) of a non-empty list of integers
IntMean(s) == TruncDiv(SumSeq(s), Len(s))

\* sorted(list)
Sorted(s) == SortSeq(s, LAMBDA a, b : a < b)

RECURSIVE Gcd(_, _)
Gcd(a, b) == IF b = 0 THEN a ELSE Gcd(b, a % b)

RECURSIVE GcdSeq(_)
GcdSeq(s) == IF s = << >> THEN 0 ELSE Gcd(Head(s), GcdSeq(Tail(s)))

\* floor of the square root, by bisection on lo..hi
RECURSIVE ISqrtIn(_, _, _)
ISqrtIn(n, lo, hi) ==
    IF lo >= hi THEN lo
    ELSE LET mid == (lo + hi + 1) \div 2
         IN  IF mid * mid <= n THEN ISqrtIn(n, mid, hi) ELSE ISqrtIn(n, lo, mid - 1)

ISqrt(n) == ISqrtIn(n, 0, Min2(n, 46340))

-----------------------------------------------------------------------------
(* statistics.stdev and the coefficient of variation *)

\* The durations divided by their common divisor: stdev / mean does not
\* change, and the squares stay inside TLC's 32-bit integers.
Scaled(ds) == LET g == GcdSeq(ds) IN [ i \in 1..Len(ds) |-> ds[i] \div g ]

\* stdev(ds), len(ds) >= 2, as the exact value unit * sqrt(num / den)
Stdev(ds) ==
    LET y == Scaled(ds)
        n == Len(ds)
    IN  [ unit |-> GcdSeq(ds),
          num  |-> n * SumSquares(y) - SumSeq(y) * SumSeq(y),
          den  |-> n * (n - 1) ]

\* floor(1000 * stdev(ds) / mean(ds)), len(ds) >= 2, mean(ds) > 0.
\* (stdev/mean)^2 = n (n Q - S^2) / ((n - 1) S^2) with S the sum and Q the
\* sum of squares.  x < k/1000 for an integer k iff floor(1000 x) < k.
VariancePermille(ds) ==
    LET y == Scaled(ds)
        n == Len(ds)
        S == SumSeq(y)
        Q == SumSquares(y)
    IN  ISqrt((1000000 * n * (n * Q - S * S)) \div ((n - 1) * S * S))

-----------------------------------------------------------------------------
(* PatternDetector helpers *)

HourOf(dt) == (dt \div MsPerHour) % 24
MinuteOf(dt) == (dt \div MsPerMinute) % 60

\* midnight of dt's calendar day
DayStart(dt) == dt - (dt % MsPerDay)

\* the time-of-day period of dt
_get_time_of_day_period(dt) ==
    LET hour == HourOf(dt)
    IN  IF 6 <= hour /\ hour < 9 THEN "morning_rush"
        ELSE IF 9 <= hour /\ hour < 12 THEN "late_morning"
        ELSE IF 12 <= hour /\ hour < 14 THEN "lunch"
        ELSE IF 14 <= hour /\ hour < 17 THEN "afternoon"
        ELSE IF 17 <= hour /\ hour < 20 THEN "evening_rush"
        ELSE IF 20 <= hour /\ hour < 23 THEN "evening"
        ELSE "night"

\* the 30-minute bucket of dt: the string "HH:MM" as <<HH, MM>>
_get_time_bucket(dt, bucket_minutes) ==
    << HourOf(dt), (MinuteOf(dt) \div bucket_minutes) * bucket_minutes >>

\* the index set of zip(self.timestamps, self.durations)
ZipIndices(ts, ds) == 1..Min2(Len(ts), Len(ds))

\* the indices, in order, of the entries of keys that equal key
IndicesOf(keys, key) ==
    SelectSeq([ i \in DOMAIN keys |-> i ], LAMBDA i : keys[i] = key)

\* period -> durations, in input order
_group_by_time_periods(ts, ds) ==
    LET period_of == [ i \in ZipIndices(ts, ds) |-> _get_time_of_day_period(ts[i]) ]
    IN  [ p \in { period_of[i] : i \in ZipIndices(ts, ds) } |->
            LET idx == IndicesOf(period_of, p)
            IN  [ j \in 1..Len(idx) |-> ds[idx[j]] ] ]

\* the 24-hour recurrences among a bucket's sorted timestamps, in ms
DailyCycleTimes(sorted_ts) ==
    LET diffs == [ i \in 1..(Len(sorted_ts) - 1) |-> sorted_ts[i + 1] - sorted_ts[i] ]
    IN  SelectSeq(diffs, LAMBDA d : /\ DailyMinHours * MsPerHour <= d
                                    /\ d <= DailyMaxHours * MsPerHour)

\* bucket -> pattern, for the buckets holding at
\* least two measurements
_detect_daily_patterns(ts, ds) ==
    LET bucket_of == [ i \in ZipIndices(ts, ds) |-> _get_time_bucket(ts[i], BucketMinutes) ]
        buckets == { bucket_of[i] : i \in ZipIndices(ts, ds) }
    IN  [ b \in { c \in buckets : Len(IndicesOf(bucket_of, c)) >= 2 } |->
            LET idx == IndicesOf(bucket_of, b)
                b_durations == [ j \in 1..Len(idx) |-> ds[idx[j]] ]
                b_timestamps == [ j \in 1..Len(idx) |-> ts[idx[j]] ]
                cycle_times == DailyCycleTimes(Sorted(b_timestamps))
            IN  [ avg_duration    |-> Some(IntMean(b_durations)),
                  avg_cycle       |-> IF cycle_times # << >>
                                      THEN Some(IntMean(cycle_times)) ELSE None,
                  sample_count    |-> Len(b_timestamps),
                  last_occurrence |-> MaxSeq(b_timestamps),
                  durations       |-> b_durations,
                  cycle_times     |-> cycle_times ] ]

\* Python truthiness of an Optional[int]
Truthy(o) == o # None /\ Get(o) # 0

RECURSIVE SumOver(_, _)
SumOver(S, f) ==
    IF S = {} THEN 0
    ELSE LET x == CHOOSE y \in S : TRUE IN f[x] + SumOver(S \ {x}, f)

\* the consecutive start-to-start times below 30 minutes, in input order
ShortCycleTimes(ts) ==
    LET diffs == [ i \in 1..(Len(ts) - 1) |-> ts[i + 1] - ts[i] ]
    IN  SelectSeq(diffs, LAMBDA cycle_ms : cycle_ms < ShortCycleLimitMs)

\* the daily cycle if any bucket has one, else the mean short cycle
_calculate_average_cycle(ts, daily_patterns) ==
    LET with_cycle == { b \in DOMAIN daily_patterns : Truthy(daily_patterns[b].avg_cycle) }
        cycles == [ b \in with_cycle |-> Get(daily_patterns[b].avg_cycle) ]
    IN  IF with_cycle # {}
        THEN Some(TruncDiv(SumOver(with_cycle, cycles), Cardinality(with_cycle)))
        ELSE IF Len(ts) >= 2 /\ ShortCycleTimes(ts) # << >>
        THEN Some(IntMean(ShortCycleTimes(ts)))
        ELSE None

\* the verdict for a variance ratio given in thousandths
Classify(permille) ==
    IF permille < RegularPermille THEN "regular"
    ELSE IF permille < SomewhatRegularPermille THEN "somewhat_regular"
    ELSE "irregular"

\* _determine_regularity asking for four captures instead of three
_determine_regularity_MinFour(total_captures_, ds, time_periods, daily_patterns) ==
    LET strong == { b \in DOMAIN daily_patterns : daily_patterns[b].sample_count >= 2 }
        varied == { b \in DOMAIN daily_patterns : Len(daily_patterns[b].durations) >= 2 }
        variances == [ b \in varied |-> VariancePermille(daily_patterns[b].durations) ]
    IN  IF total_captures_ < MinCapturesForStdev + 1 THEN None
        ELSE IF Cardinality(strong) >= 2 /\ varied # {}
        THEN Some(Classify(SumOver(varied, variances) \div Cardinality(varied)))
        ELSE Some(Classify(VariancePermille(ds)))

\* the verdict from the buckets' durations, else from all durations
_determine_regularity(total_captures_, ds, time_periods, daily_patterns) ==
    LET strong == { b \in DOMAIN daily_patterns : daily_patterns[b].sample_count >= 2 }
        varied == { b \in DOMAIN daily_patterns : Len(daily_patterns[b].durations) >= 2 }
        variances == [ b \in varied |-> VariancePermille(daily_patterns[b].durations) ]
    IN  IF total_captures_ < MinCapturesForStdev THEN None
        ELSE IF Cardinality(strong) >= 2 /\ varied # {}
        THEN Some(Classify(SumOver(varied, variances) \div Cardinality(varied)))
        ELSE Some(Classify(VariancePermille(ds)))

\* now.replace(hour=bucket_hour, minute=bucket_minute, second=0, microsecond=0)
BucketTime(bucket, now_) == DayStart(now_) + bucket[1] * MsPerHour + bucket[2] * MsPerMinute

\* the next time of day of the bucket: today if still ahead, else tomorrow
UpcomingTime(bucket, now_) ==
    IF BucketTime(bucket, now_) > now_
    THEN BucketTime(bucket, now_)
    ELSE BucketTime(bucket, now_) + MsPerDay

\* <<next_green_start, next_green_end>>, with the clock showing now_
_predict_next_green_phase(ts, daily_patterns, avg_duration, avg_cycle_ms, now_) ==
    LET current_bucket == _get_time_bucket(now_, BucketMinutes)
        \* Strategy 1: (last_occurrence + 1 day) moved to today's date
        predicted_next ==
            DayStart(now_) + (daily_patterns[current_bucket].last_occurrence % MsPerDay)
        \* Strategy 2: the nearest upcoming bucket
        nearest == CHOOSE b \in DOMAIN daily_patterns :
                       \A c \in DOMAIN daily_patterns :
                           UpcomingTime(b, now_) <= UpcomingTime(c, now_)
        \* Strategy 3: one cycle after the last list element
        next_start_dt == ts[Len(ts)] + Get(avg_cycle_ms)
    IN  IF ts = << >> THEN << None, None >>
        ELSE IF /\ current_bucket \in DOMAIN daily_patterns
                /\ now_ - daily_patterns[current_bucket].last_occurrence
                       >= StaleHours * MsPerHour
        THEN << Some(predicted_next),
                Some(predicted_next + Get(daily_patterns[current_bucket].avg_duration)) >>
        ELSE IF DOMAIN daily_patterns # {}
        THEN << Some(UpcomingTime(nearest, now_)),
                Some(UpcomingTime(nearest, now_) + Get(daily_patterns[nearest].avg_duration)) >>
        ELSE IF Truthy(avg_cycle_ms) /\ Len(ts) > 0 /\ Get(avg_cycle_ms) < ShortCycleLimitMs
        THEN << Some(next_start_dt), Some(next_start_dt + avg_duration) >>
        ELSE << None, None >>

\* analyze() computing stdev() whatever the number of captures
AnalyzeFails_NoCaptureGuard(ts, ds, total_captures_) ==
    /\ ts # << >>
    /\ Len(ds) < 2

\* analyze() raises statistics.StatisticsError: mean() of no durations
\* (line 45), or stdev() of fewer than two durations (lines 220 and 67).
\* The durations of the inputs are positive: no division by a zero mean.
AnalyzeFails(ts, ds, total_captures_) ==
    /\ ts # << >>
    /\ \/ ds = << >>
       \/ total_captures_ >= MinCapturesForStdev /\ Len(ds) < 2

\* std_dev of analyze() computed from two captures on
StddevDuration_FromTwo(ds, total_captures_) ==
    IF total_captures_ >= MinCapturesForStdev - 1 THEN Some(Stdev(ds)) ELSE None

\* std_dev of analyze(): None below three captures
StddevDuration(ds, total_captures_) ==
    IF total_captures_ >= MinCapturesForStdev THEN Some(Stdev(ds)) ELSE None

\* the dict analyze() returns for a non-empty detector, the clock showing now_
AnalyzeResult(ts, ds, total_captures_, now_) ==
    LET avg_duration == IntMean(ds)
        time_periods == _group_by_time_periods(ts, ds)
        daily_patterns == _detect_daily_patterns(ts, ds)
        avg_cycle_ms == _calculate_average_cycle(ts, daily_patterns)
        schedule_regularity ==
            _determine_regularity(total_captures_, ds, time_periods, daily_patterns)
        next_green ==
            _predict_next_green_phase(ts, daily_patterns, avg_duration, avg_cycle_ms, now_)
    IN  [ has_pattern         |-> TRUE,
          average_duration_ms |-> avg_duration,
          min_duration_ms     |-> MinSeq(ds),
          max_duration_ms     |-> MaxSeq(ds),
          stddev_duration_ms  |-> StddevDuration(ds, total_captures_),
          typical_duration_ms |-> avg_duration,
          schedule_regularity |-> schedule_regularity,
          total_captures      |-> total_captures_,
          average_cycle_ms    |-> avg_cycle_ms,
          next_green_start    |-> next_green[1],
          next_green_end      |-> next_green[2] ]

\* the dict analyze() returns for a detector without timestamps
EmptyResult == [ has_pattern |-> FALSE, total_captures |-> 0 ]

-----------------------------------------------------------------------------
(* routes/schedules.py: the statistics of GET /{traffic_light_id}/pattern *)

\* captures needed for std_dev and schedule_regularity
PatternMinCaptures == 3

\* std_dev < avg_duration * 0.1 * k, for avg_duration = int(mean(ds)) and
\* len(ds) >= 2.  With g the common divisor of ds, S and Q the sum and the
\* sum of squares of ds / g, n = len(ds) and rho = sum(ds) % n:
\*   stdev^2 = g^2 (n Q - S^2) / (n (n - 1)),  avg_duration = (g S - rho) / n,
\* so the comparison is  g^2 (k^2 (n - 1) S^2 - 100 n (n Q - S^2))
\*                          > k^2 (n - 1) rho (2 g S - rho).
StdevBelowThreshold(ds, k) ==
    LET y == Scaled(ds)
        g == GcdSeq(ds)
        n == Len(ds)
        S == SumSeq(y)
        Q == SumSquares(y)
        rho == SumSeq(ds) % n
        lhs == k * k * (n - 1) * S * S - 100 * n * (n * Q - S * S)
        rhs == k * k * (n - 1) * rho * (2 * SumSeq(ds) - rho)
    IN  lhs > rhs \div (g * g)

\* lines 173-186: the verdict from all durations and the truncated average
PatternRegularity(ds) ==
    IF Len(ds) >= PatternMinCaptures
    THEN IF StdevBelowThreshold(ds, 1) THEN Some("regular")
         ELSE IF StdevBelowThreshold(ds, 2) THEN Some("somewhat_regular")
         ELSE Some("irregular")
    ELSE None

\* lines 142-219: the SchedulePattern built from the rows of the query,
\* green_starts and ds in row order, each green_end being its
\* green_start plus its duration_ms
PatternOfRows(green_starts, ds) ==
    LET total_captures_ == Len(ds)
        avg_duration == IntMean(ds)
        cycle_times == [ i \in 1..(Len(green_starts) - 1) |->
                           green_starts[i + 1] - green_starts[i] ]
        avg_cycle_ms == IF cycle_times # << >> THEN Some(IntMean(cycle_times)) ELSE None
        std_dev == IF total_captures_ >= PatternMinCaptures THEN Some(Stdev(ds)) ELSE None
        last_green_start == green_starts[Len(green_starts)]
        next_start_dt == last_green_start + Get(avg_cycle_ms)
        predicted == Truthy(avg_cycle_ms) /\ Len(green_starts) > 0
    IN  IF ds = << >>
        THEN [ has_pattern |-> FALSE, total_captures |-> 0 ]
        ELSE [ has_pattern         |-> TRUE,
               average_duration_ms |-> avg_duration,
               min_duration_ms     |-> MinSeq(ds),
               max_duration_ms     |-> MaxSeq(ds),
               stddev_duration_ms  |-> std_dev,
               typical_duration_ms |-> avg_duration,
               schedule_regularity |-> PatternRegularity(ds),
               total_captures      |-> total_captures_,
               last_capture        |-> Some(last_green_start + ds[Len(ds)]),
               average_cycle_ms    |-> avg_cycle_ms,
               next_green_start    |-> IF predicted THEN Some(next_start_dt) ELSE None,
               next_green_end      |-> IF predicted THEN Some(next_start_dt + avg_duration)
                                       ELSE None ]

-----------------------------------------------------------------------------
(* The detector as a state machine *)

VARIABLES
    timestamps,      \* self.timestamps
    durations,       \* self.durations
    total_captures,  \* self.total_captures
    status,          \* "constructed", or how the last analyze() ended
    result,          \* the dict the last analyze() returned
    now,             \* the clock value the last analyze() read, if it read one
    timeline,        \* the last get_daily_timeline(): arguments and list returned
    validation,      \* the last validate_pattern(): argument and dict returned
    schedule_pattern,  \* the last SchedulePattern GET /{traffic_light_id}/pattern answered
    analyses,        \* analyze() calls running side by side: fields, locals, position
    time_buckets,    \* the time_buckets of each running _detect_daily_patterns()
    _jwks_cache,     \* auth.py: the module-level _jwks_cache
    calls,           \* get_current_user() calls in flight
    _tables_initialized,  \* database.py: the module-level flag
    tables,          \* the tables of the database file
    request          \* the request a route handler is serving

detector_vars == << timestamps, durations, total_captures, status, result, now,
                    timeline, validation, schedule_pattern >>
pair_vars == << analyses, time_buckets >>
auth_vars == << _jwks_cache, calls >>
api_vars == << _tables_initialized, tables, request >>

vars == << detector_vars, pair_vars, auth_vars, api_vars >>

\* nothing of the other components is running
PairIdle == analyses = << >> /\ time_buckets = << >>
AuthIdle == _jwks_cache = << >> /\ calls = << >>
ApiIdle == _tables_initialized = FALSE /\ tables = {} /\ request = << >>

\* lists in ascending or in descending order of time
Ordered(s) ==
    \/ \A i \in 1..(Len(s) - 1) : s[i] <= s[i + 1]
    \/ \A i \in 1..(Len(s) - 1) : s[i] >= s[i + 1]

TimestampLists(n) == { s \in [ 1..n -> Instants ] : Ordered(s) }
DurationLists(n) == [ 1..n -> Durations ]

\* PatternDetector(timestamps, durations): __init__ stores what it is given
Init ==
    /\ \E n \in 0..MaxN, m \in 0..MaxN :
          /\ (n # m) => (n <= MaxMismatch /\ m <= MaxMismatch)
          /\ timestamps \in TimestampLists(n)
          /\ durations \in DurationLists(m)
    /\ total_captures = Len(timestamps)
    /\ status = "constructed"
    /\ result = None
    /\ now = None
    /\ timeline = None
    /\ validation = None
    /\ schedule_pattern = None
    /\ PairIdle /\ AuthIdle /\ ApiIdle

\* analyze() without its early return: mean([]) raises StatisticsError
AnalyzeEmpty_NoEarlyReturn ==
    /\ timestamps = << >>
    /\ status' = "raised"
    /\ result' = None
    /\ now' = None
    /\ UNCHANGED << timestamps, durations, total_captures, timeline, validation,
                    schedule_pattern, pair_vars, auth_vars, api_vars >>

\* analyze(), lines 38-42
AnalyzeEmpty ==
    /\ timestamps = << >>
    /\ status' = "returned"
    /\ result' = EmptyResult
    /\ now' = None
    /\ UNCHANGED << timestamps, durations, total_captures, timeline, validation,
                    schedule_pattern, pair_vars, auth_vars, api_vars >>

\* analyze() left by an exception of the statistics module
AnalyzeRaises ==
    /\ AnalyzeFails(timestamps, durations, total_captures)
    /\ status' = "raised"
    /\ result' = None
    /\ now' = None
    /\ UNCHANGED << timestamps, durations, total_captures, timeline, validation,
                    schedule_pattern, pair_vars, auth_vars, api_vars >>

\* analyze() with line 137 as data["timestamps"].sort(): the lists of a
\* bucket are sorted in place, which for one bucket is self.timestamps
AnalyzeReturns_SortsInPlace ==
    /\ timestamps # << >>
    /\ ~AnalyzeFails(timestamps, durations, total_captures)
    /\ \E clock \in Nows :
          /\ now' = Some(clock)
          /\ result' = AnalyzeResult(timestamps, durations, total_captures, clock)
    /\ status' = "returned"
    /\ timestamps' = Sorted(timestamps)
    /\ UNCHANGED << durations, total_captures, timeline, validation,
                    schedule_pattern, pair_vars, auth_vars, api_vars >>

\* analyze(), lines 44-81; datetime.now() is the clock read of line 240
AnalyzeReturns ==
    /\ timestamps # << >>
    /\ ~AnalyzeFails(timestamps, durations, total_captures)
    /\ \E clock \in Nows :
          /\ now' = Some(clock)
          /\ result' = AnalyzeResult(timestamps, durations, total_captures, clock)
    /\ status' = "returned"
    /\ UNCHANGED << timestamps, durations, total_captures, timeline, validation,
                    schedule_pattern, pair_vars, auth_vars, api_vars >>

\* get_schedule_pattern(), lines 135-219, for a traffic light whose stored
\* schedules are the detector's measurements: the query returns the rows
\* ORDER BY green_start ASC, rows of equal green_start in any order
GetSchedulePattern ==
    /\ Len(timestamps) = Len(durations)
    /\ \A i \in 1..(Len(timestamps) - 1) : timestamps[i] <= timestamps[i + 1]
    /\ schedule_pattern' = Some(PatternOfRows(timestamps, durations))
    /\ UNCHANGED << timestamps, durations, total_captures, status, result, now,
                    timeline, validation, pair_vars, auth_vars, api_vars >>

Next == AnalyzeEmpty \/ AnalyzeRaises \/ AnalyzeReturns \/ GetSchedulePattern

Spec == Init /\ [][Next]_vars

-----------------------------------------------------------------------------
(* The notions the properties are stated in *)

\* both lists have one entry per measurement
WellFormed == Len(timestamps) = Len(durations)

\* the last analyze() returned a dict
Returned == status = "returned"

\* a result field that is missing or None
Absent(key) == key \notin DOMAIN result \/ result[key] = None

\* insertion of a measurement after the ones that start no later (stable)
RECURSIVE InsertByStart(_, _)
InsertByStart(m, sorted) ==
    IF sorted = << >> THEN << m >>
    ELSE IF Head(sorted).start <= m.start
    THEN << Head(sorted) >> \o InsertByStart(m, Tail(sorted))
    ELSE << m >> \o sorted

RECURSIVE SortByStart(_)
SortByStart(ms) ==
    IF ms = << >> THEN << >>
    ELSE InsertByStart(ms[Len(ms)], SortByStart(SubSeq(ms, 1, Len(ms) - 1)))

\* the measurements of a well-formed detector, sorted by start time
SortedMeasurements ==
    SortByStart([ i \in 1..Len(timestamps) |->
                    [ start |-> timestamps[i], duration_ms |-> durations[i] ] ])

\* the adjacent pairs of the sorted measurements, named by the earlier one
AdjacentPairs == 1..(Len(SortedMeasurements) - 1)

\* RedGap: next.start - (current.start + current.duration_ms)
RedDuration(i) ==
    SortedMeasurements[i + 1].start
        - (SortedMeasurements[i].start + SortedMeasurements[i].duration_ms)

\* RedGap: next.start - current.start
CycleTime(i) == SortedMeasurements[i + 1].start - SortedMeasurements[i].start

\* a gap is eligible only if 0 < red_duration_ms < 2 hours
EligiblePairs ==
    { i \in AdjacentPairs : 0 < RedDuration(i) /\ RedDuration(i) < 2 * MsPerHour }

\* the eligible pairs of smallest red duration
MinRedPairs ==
    { i \in EligiblePairs : \A j \in EligiblePairs : RedDuration(i) <= RedDuration(j) }

\* the list is in order of time and no two measurements start together,
\* as in the rows of a query ordered by green_start and in every test
StrictlyAscending ==
    \A i \in 1..(Len(timestamps) - 1) : timestamps[i] < timestamps[i + 1]

\* the starts are equally spaced by d, in list order
EquallySpaced(d) ==
    \A i \in 1..(Len(timestamps) - 1) : timestamps[i + 1] - timestamps[i] = d

-----------------------------------------------------------------------------
(* The cycle finder, the timeline generator and the pattern validator.     *)
(* The tests call get_daily_timeline() and validate_pattern(), which      *)
(* pattern_detector.py does not define: these definitions follow spec.md,  *)
(* sections 3, 4.2, 4.5 and 4.6.                                           *)

\* the measurements (start, duration_ms), sorted by start time (stable)
Measurements(ts, ds) ==
    SortByStart([ i \in 1..Len(ts) |-> [ start |-> ts[i], duration_ms |-> ds[i] ] ])

\* RedGap of the i-th sorted measurement and its successor
RedGap(ms, i) ==
    [ red_duration_ms |-> ms[i + 1].start - (ms[i].start + ms[i].duration_ms),
      cycle_time_ms   |-> ms[i + 1].start - ms[i].start ]

\* a gap is eligible only if 0 < red_duration_ms < 2 hours
Eligible(gap) == 0 < gap.red_duration_ms /\ gap.red_duration_ms < 2 * MsPerHour

\* InferredPattern: the eligible gap of smallest red duration, the earliest
\* of them in sorted order; None without two measurements or eligible gap
InferredPattern(ts, ds) ==
    LET ms == Measurements(ts, ds)
        eligible == { i \in 1..(Len(ms) - 1) : Eligible(RedGap(ms, i)) }
        best == CHOOSE i \in eligible : \A j \in eligible :
                    \/ RedGap(ms, i).red_duration_ms < RedGap(ms, j).red_duration_ms
                    \/ /\ RedGap(ms, i).red_duration_ms = RedGap(ms, j).red_duration_ms
                       /\ i <= j
    IN  IF Len(ms) < 2 \/ eligible = {} THEN None
        ELSE Some([ cycle_ms        |-> RedGap(ms, best).cycle_time_ms,
                    red_duration_ms |-> RedGap(ms, best).red_duration_ms ])

\* the time of day of dt, in ms since midnight
TimeOfDay(dt) == dt % MsPerDay

\* Timeline Generator, step 3: from start on, a green interval of green_ms
\* and a red interval for the rest of the cycle, until the window closes;
\* the final interval is clipped to the window
RECURSIVE Phases(_, _, _, _)
Phases(start, green_ms, cycle_ms, window_end) ==
    IF start >= window_end THEN << >>
    ELSE << [ start_time |-> start,
              end_time   |-> Min2(start + green_ms, window_end),
              state      |-> "green" ] >>
         \o ( IF start + green_ms < window_end
              THEN << [ start_time |-> start + green_ms,
                        end_time   |-> Min2(start + cycle_ms, window_end),
                        state      |-> "red" ] >>
              ELSE << >> )
         \o Phases(start + cycle_ms, green_ms, cycle_ms, window_end)

\* get_daily_timeline(reference_date, hours): steps 1 and 2 find the earliest
\* occurrence in the window of the earliest measurement's time of day
get_daily_timeline(ts, ds, reference_date, hours) ==
    LET pattern == InferredPattern(ts, ds)
        window_start == reference_date * MsPerDay
        window_end == window_start + hours * MsPerHour
        anchor == TimeOfDay(MinSeq(ts))
        first_green == window_start + (anchor % Get(pattern).cycle_ms)
    IN  IF Len(ts) < 2 \/ pattern = None THEN << >>
        ELSE Phases(first_green, IntMean(ds), Get(pattern).cycle_ms, window_end)

\* matches / total as a fraction in lowest terms
Ratio(a, b) == << a \div Gcd(a, b), b \div Gcd(a, b) >>

\* validate_pattern measuring from midnight instead of the anchor
validate_pattern_FromMidnight(ts, ds, tolerance_ms) ==
    LET pattern == InferredPattern(ts, ds)
        cycle_ms == Get(pattern).cycle_ms
        remainder(i) == (ts[i] - DayStart(ts[i])) % cycle_ms
        matching == { i \in 1..Len(ts) :
                        \/ remainder(i) <= tolerance_ms
                        \/ remainder(i) >= cycle_ms - tolerance_ms }
        matches == Cardinality(matching)
    IN  IF Len(ts) < 2 \/ pattern = None
        THEN [ is_valid |-> FALSE, matches |-> 0, total |-> Len(ts),
               match_rate |-> Ratio(0, 1) ]
        ELSE [ is_valid |-> 10 * matches >= 7 * Len(ts), matches |-> matches,
               total |-> Len(ts), match_rate |-> Ratio(matches, Len(ts)) ]

\* validate_pattern calling a pattern valid from a match rate of one half
validate_pattern_HalfIsValid(ts, ds, tolerance_ms) ==
    LET pattern == InferredPattern(ts, ds)
        cycle_ms == Get(pattern).cycle_ms
        anchor == TimeOfDay(ts[1])
        remainder(i) == (ts[i] - (DayStart(ts[i]) + anchor)) % cycle_ms
        matching == { i \in 1..Len(ts) :
                        \/ remainder(i) <= tolerance_ms
                        \/ remainder(i) >= cycle_ms - tolerance_ms }
        matches == Cardinality(matching)
    IN  IF Len(ts) < 2 \/ pattern = None
        THEN [ is_valid |-> FALSE, matches |-> 0, total |-> Len(ts),
               match_rate |-> Ratio(0, 1) ]
        ELSE [ is_valid |-> 10 * matches >= 5 * Len(ts), matches |-> matches,
               total |-> Len(ts), match_rate |-> Ratio(matches, Len(ts)) ]

\* validate_pattern(tolerance_ms): the share of the measurements that lie
\* within tolerance_ms of a whole number of cycles after the first
\* measurement's time of day on their own date
validate_pattern(ts, ds, tolerance_ms) ==
    LET pattern == InferredPattern(ts, ds)
        cycle_ms == Get(pattern).cycle_ms
        anchor == TimeOfDay(ts[1])
        remainder(i) == (ts[i] - (DayStart(ts[i]) + anchor)) % cycle_ms
        matching == { i \in 1..Len(ts) :
                        \/ remainder(i) <= tolerance_ms
                        \/ remainder(i) >= cycle_ms - tolerance_ms }
        matches == Cardinality(matching)
    IN  IF Len(ts) < 2 \/ pattern = None
        THEN [ is_valid |-> FALSE, matches |-> 0, total |-> Len(ts),
               match_rate |-> Ratio(0, 1) ]
        ELSE [ is_valid |-> 10 * matches >= 7 * Len(ts), matches |-> matches,
               total |-> Len(ts), match_rate |-> Ratio(matches, Len(ts)) ]

SeriesTimestampLists(n) == { s \in [ 1..n -> SeriesInstants ] : Ordered(s) }

\* a detector built from measurements: lists of one length
SeriesInit ==
    /\ \E n \in 0..MaxSeries :
          /\ timestamps \in SeriesTimestampLists(n)
          /\ durations \in [ 1..n -> SeriesDurations ]
    /\ total_captures = Len(timestamps)
    /\ status = "constructed"
    /\ result = None
    /\ now = None
    /\ timeline = None
    /\ validation = None
    /\ schedule_pattern = None
    /\ PairIdle /\ AuthIdle /\ ApiIdle

\* detector.get_daily_timeline(reference_date, hours)
GetDailyTimeline ==
    /\ \E reference_date \in ReferenceDates, hours \in WindowHours :
          timeline' = Some([ reference_date |-> reference_date,
                             hours          |-> hours,
                             intervals      |-> get_daily_timeline(timestamps, durations,
                                                                  reference_date, hours) ])
    /\ UNCHANGED << timestamps, durations, total_captures, status, result, now,
                    validation, schedule_pattern, pair_vars,
                    auth_vars, api_vars >>

\* detector.validate_pattern(tolerance_ms)
ValidatePattern ==
    /\ \E tolerance_ms \in Tolerances :
          validation' = Some([ tolerance_ms |-> tolerance_ms,
                               outcome      |-> validate_pattern(timestamps, durations,
                                                                 tolerance_ms) ])
    /\ UNCHANGED << timestamps, durations, total_captures, status, result, now,
                    timeline, schedule_pattern, pair_vars,
                    auth_vars, api_vars >>

SeriesNext == GetDailyTimeline \/ ValidatePattern

SeriesSpec == SeriesInit /\ [][SeriesNext]_vars

\* the detector has an inferable pattern
Inferable == InferredPattern(timestamps, durations) # None

\* the cycle of the inferred pattern
InferredCycle == Get(InferredPattern(timestamps, durations)).cycle_ms

\* the window [WindowStart, WindowEnd) of the last timeline asked for
WindowStart == Get(timeline).reference_date * MsPerDay
WindowEnd == WindowStart + Get(timeline).hours * MsPerHour

\* ordered by start, contiguous, and inside the window
ContiguousInWindow(iv) ==
    /\ \A i \in 1..Len(iv) :
          /\ WindowStart <= iv[i].start_time
          /\ iv[i].start_time < WindowEnd
          /\ iv[i].start_time <= iv[i].end_time
          /\ iv[i].end_time <= WindowEnd
    /\ \A i \in 1..(Len(iv) - 1) :
          /\ iv[i].end_time = iv[i + 1].start_time
          /\ iv[i].start_time <= iv[i + 1].start_time

\* entries of three fields whose states alternate, beginning with green
AlternatingFromGreen(iv) ==
    \A i \in 1..Len(iv) :
        /\ DOMAIN iv[i] = { "start_time", "end_time", "state" }
        /\ iv[i].state = (IF i % 2 = 1 THEN "green" ELSE "red")

\* all measurements start on one calendar day
OneCalendarDay ==
    \A i \in 1..Len(timestamps) : DayStart(timestamps[i]) = DayStart(timestamps[1])

-----------------------------------------------------------------------------
(* Two detectors analysed side by side.  analyze() runs to its end in one  *)
(* thread; between the calls it makes another thread may run.              *)

PairInstances == { 1, 2 }

MaxPairN == 2
PairInstants == { At(0, 8, 0), At(1, 8, 0) }
PairNows == { At(0, 8, 35), At(2, 8, 10) }

\* no detector is under analysis
DetectorIdle ==
    /\ timestamps = << >> /\ durations = << >> /\ total_captures = 0
    /\ status = "constructed" /\ result = None /\ now = None
    /\ timeline = None /\ validation = None /\ schedule_pattern = None

\* time_buckets of line 125 kept in one module-level dict
Frame_ModuleLevel(i) == 1

\* where the time_buckets of instance i's call live: line 125 creates the
\* dict anew in the frame of each call
Frame(i) == i

\* PatternDetector(ts, ds), and the locals of an analyze() not yet begun
NewAnalysis(ts, ds) ==
    [ timestamps |-> ts, durations |-> ds, total_captures |-> Len(ts),
      pc |-> "called", time_periods |-> None, daily_patterns |-> None,
      avg_cycle_ms |-> None, schedule_regularity |-> None,
      clock |-> None, next_green |-> None, result |-> None ]

PairInit ==
    /\ analyses \in [ PairInstances ->
                        UNION { { NewAnalysis(ts, ds) :
                                    ts \in [ 1..n -> PairInstants ],
                                    ds \in [ 1..n -> Durations ] } : n \in 0..MaxPairN } ]
    /\ time_buckets = [ f \in PairInstances |-> None ]
    /\ DetectorIdle /\ AuthIdle /\ ApiIdle

\* analyze(), lines 38-42
PairAnalyzeEmpty(i) ==
    /\ analyses[i].pc = "called"
    /\ analyses[i].timestamps = << >>
    /\ analyses' = [ analyses EXCEPT ![i].result = Some(EmptyResult), ![i].pc = "done" ]
    /\ UNCHANGED << time_buckets, detector_vars, auth_vars, api_vars >>

\* analyze(), lines 44-50
PairGroupByTimePeriods(i) ==
    /\ analyses[i].pc = "called"
    /\ analyses[i].timestamps # << >>
    /\ analyses' = [ analyses EXCEPT
                       ![i].time_periods = _group_by_time_periods(analyses[i].timestamps,
                                                                  analyses[i].durations),
                       ![i].pc = "grouped" ]
    /\ UNCHANGED << time_buckets, detector_vars, auth_vars, api_vars >>

\* _detect_daily_patterns(), lines 125-130: the measurements are put into
\* time_buckets in list order
PairFillTimeBuckets(i) ==
    /\ analyses[i].pc = "grouped"
    /\ time_buckets' = [ time_buckets EXCEPT
                           ![Frame(i)] = Some([ timestamps |-> analyses[i].timestamps,
                                                durations |-> analyses[i].durations ]) ]
    /\ analyses' = [ analyses EXCEPT ![i].pc = "bucketed" ]
    /\ UNCHANGED << detector_vars, auth_vars, api_vars >>

\* _detect_daily_patterns(), lines 133-159, from what time_buckets holds;
\* then analyze(), lines 54-57
PairDetectDailyPatterns(i) ==
    /\ analyses[i].pc = "bucketed"
    /\ LET data == Get(time_buckets[Frame(i)])
           daily_patterns == _detect_daily_patterns(data.timestamps, data.durations)
       IN  analyses' = [ analyses EXCEPT
                           ![i].daily_patterns = daily_patterns,
                           ![i].avg_cycle_ms =
                               _calculate_average_cycle(analyses[i].timestamps, daily_patterns),
                           ![i].schedule_regularity =
                               _determine_regularity(analyses[i].total_captures,
                                                     analyses[i].durations,
                                                     analyses[i].time_periods, daily_patterns),
                           ![i].pc = "detected" ]
    /\ UNCHANGED << time_buckets, detector_vars, auth_vars, api_vars >>

\* analyze(), lines 60-62; line 240 reads the clock
PairPredictNextGreenPhase(i) ==
    /\ analyses[i].pc = "detected"
    /\ \E clock \in PairNows :
          analyses' = [ analyses EXCEPT
                          ![i].clock = Some(clock),
                          ![i].next_green =
                              _predict_next_green_phase(analyses[i].timestamps,
                                                        analyses[i].daily_patterns,
                                                        IntMean(analyses[i].durations),
                                                        analyses[i].avg_cycle_ms, clock),
                          ![i].pc = "predicted" ]
    /\ UNCHANGED << time_buckets, detector_vars, auth_vars, api_vars >>

\* analyze(), lines 64-81
PairAnalyzeReturns(i) ==
    /\ analyses[i].pc = "predicted"
    /\ LET a == analyses[i]
           avg_duration == IntMean(a.durations)
       IN  analyses' = [ analyses EXCEPT
               ![i].result =
                   Some([ has_pattern         |-> TRUE,
                          average_duration_ms |-> avg_duration,
                          min_duration_ms     |-> MinSeq(a.durations),
                          max_duration_ms     |-> MaxSeq(a.durations),
                          stddev_duration_ms  |-> StddevDuration(a.durations,
                                                                 a.total_captures),
                          typical_duration_ms |-> avg_duration,
                          schedule_regularity |-> a.schedule_regularity,
                          total_captures      |-> a.total_captures,
                          average_cycle_ms    |-> a.avg_cycle_ms,
                          next_green_start    |-> a.next_green[1],
                          next_green_end      |-> a.next_green[2] ]),
               ![i].pc = "done" ]
    /\ UNCHANGED << time_buckets, detector_vars, auth_vars, api_vars >>

PairNext ==
    \E i \in PairInstances :
        \/ PairAnalyzeEmpty(i)
        \/ PairGroupByTimePeriods(i)
        \/ PairFillTimeBuckets(i)
        \/ PairDetectDailyPatterns(i)
        \/ PairPredictNextGreenPhase(i)
        \/ PairAnalyzeReturns(i)

PairSpec == PairInit /\ [][PairNext]_vars

-----------------------------------------------------------------------------
(* auth.py: get_current_user() and get_jwks().  Both are coroutines of one *)
(* event loop: a call runs without interruption from one await to the      *)
(* next, and at an await the other calls may run.                          *)

MaxCalls == 2
Callers == 1..MaxCalls

\* the key sets the provider may serve: the second after a key rotation
ProviderJwks == { { "k1" }, { "k1", "k2" } }

\* bearer tokens: the key that signed each, and whether its claims
\* (expiry, audience, issuer) are in order
Tokens == { "signed_k1", "signed_k2", "expired_k1" }
SigningKey(token) == IF token = "signed_k2" THEN "k2" ELSE "k1"
ClaimsInOrder(token) == token # "expired_k1"

\* Authorization header values, written as scheme and token, the two parts
\* authorization.partition(" ") yields; None is a request without header
Authorizations ==
    { None,
      Some([ scheme |-> "", token |-> "" ]),
      Some([ scheme |-> "Basic", token |-> "signed_k1" ]),
      Some([ scheme |-> "Bearer", token |-> "" ]),
      Some([ scheme |-> "Bearer", token |-> "signed_k1" ]),
      Some([ scheme |-> "BEARER", token |-> "signed_k2" ]),
      Some([ scheme |-> "bearer", token |-> "expired_k1" ]) }

\* str.lower() on the schemes above
Lower(scheme) ==
    IF scheme \in { "Bearer", "BEARER", "bearer" } THEN "bearer"
    ELSE IF scheme = "Basic" THEN "basic"
    ELSE scheme

\* not authorization: the header is missing or the empty string
Missing(authorization) ==
    IF authorization = None THEN TRUE
    ELSE Get(authorization).scheme = "" /\ Get(authorization).token = ""

\* lines 90-91: scheme.lower() != "bearer" or not token
InvalidScheme(authorization) ==
    Lower(Get(authorization).scheme) # "bearer" \/ Get(authorization).token = ""

\* jwt.decode(token, jwks, ...) returns the payload: the signature verifies
\* under a key of jwks and the claims are in order; else it raises JWTError
Decodes(token, jwks) == SigningKey(token) \in jwks /\ ClaimsInOrder(token)

HTTPException(status_code, detail) ==
    [ class |-> "HTTPException", status_code |-> status_code, detail |-> detail ]

\* the except clauses with the catch-all clause ahead of the re-raise
Raised_CatchAllFirst(exception) ==
    IF exception.class = "JWTError"
    THEN HTTPException(401, "Invalid or expired token")
    ELSE HTTPException(401, "Authentication failed")

\* lines 115-130: what get_current_user() raises for an exception raised
\* inside its try block
Raised(exception) ==
    IF exception.class = "JWTError"
    THEN HTTPException(401, "Invalid or expired token")
    ELSE IF exception.class = "HTTPException"
    THEN exception
    ELSE HTTPException(401, "Authentication failed")

\* lines 104-113 and their except clauses
DecodeOutcome(token, jwks) ==
    IF Decodes(token, jwks)
    THEN [ class |-> "payload", token |-> token ]
    ELSE Raised([ class |-> "JWTError" ])

\* a request that has not reached get_current_user() yet.  fetching: the
\* call passed line 39 with the cache empty; fetch_failed: get_jwks()
\* raised; jwks: the keys get_jwks() returned to the call
NewCall(authorization) ==
    [ authorization |-> authorization, pc |-> "called", fetching |-> FALSE,
      fetch_failed |-> FALSE, jwks |-> None, outcome |-> None ]

Finished(c, outcome) ==
    [ calls EXCEPT ![c].pc = "done", ![c].outcome = Some(outcome) ]

AuthInit ==
    /\ _jwks_cache = None
    /\ calls \in [ Callers -> { NewCall(a) : a \in Authorizations } ]
    /\ DetectorIdle /\ PairIdle /\ ApiIdle

\* lines 82-87
MissingToken(c) ==
    /\ calls[c].pc = "called"
    /\ Missing(calls[c].authorization)
    /\ calls' = Finished(c, Raised(HTTPException(401, "Missing authentication token")))
    /\ UNCHANGED << _jwks_cache, detector_vars, pair_vars, api_vars >>

\* lines 90-96
InvalidAuthorizationScheme(c) ==
    /\ calls[c].pc = "called"
    /\ ~Missing(calls[c].authorization)
    /\ InvalidScheme(calls[c].authorization)
    /\ calls' = Finished(c, Raised(HTTPException(401, "Invalid authorization scheme")))
    /\ UNCHANGED << _jwks_cache, detector_vars, pair_vars, api_vars >>

\* line 98: OIDCSettings() raises when the OIDC_ variables are not set
SettingsMissing(c) ==
    /\ calls[c].pc = "called"
    /\ ~Missing(calls[c].authorization)
    /\ ~InvalidScheme(calls[c].authorization)
    /\ calls' = Finished(c, Raised([ class |-> "ValidationError" ]))
    /\ UNCHANGED << _jwks_cache, detector_vars, pair_vars, api_vars >>

\* lines 98-113 with get_jwks() returning the cache at line 40
CachedJwks(c) ==
    /\ calls[c].pc = "called"
    /\ ~Missing(calls[c].authorization)
    /\ ~InvalidScheme(calls[c].authorization)
    /\ _jwks_cache # None
    /\ calls' = [ Finished(c, DecodeOutcome(Get(calls[c].authorization).token,
                                            Get(_jwks_cache)))
                    EXCEPT ![c].jwks = _jwks_cache ]
    /\ UNCHANGED << _jwks_cache, detector_vars, pair_vars, api_vars >>

\* lines 98-101 and get_jwks() lines 39-47: the cache is empty, the
\* request for the well-known configuration is sent and the call waits
RequestWellKnown(c) ==
    /\ calls[c].pc = "called"
    /\ ~Missing(calls[c].authorization)
    /\ ~InvalidScheme(calls[c].authorization)
    /\ _jwks_cache = None
    /\ calls' = [ calls EXCEPT ![c].pc = "awaits_well_known", ![c].fetching = TRUE ]
    /\ UNCHANGED << _jwks_cache, detector_vars, pair_vars, api_vars >>

\* get_jwks() lines 47-57 and 64-69: the request fails, answers an error
\* status or a configuration without jwks_uri
WellKnownFails(c) ==
    /\ calls[c].pc = "awaits_well_known"
    /\ calls' = [ Finished(c, Raised(HTTPException(503, "OIDC provider unavailable")))
                    EXCEPT ![c].fetch_failed = TRUE ]
    /\ UNCHANGED << _jwks_cache, detector_vars, pair_vars, api_vars >>

\* get_jwks() lines 47-59: the configuration names jwks_uri, the request
\* for the keys is sent and the call waits
RequestJwks(c) ==
    /\ calls[c].pc = "awaits_well_known"
    /\ calls' = [ calls EXCEPT ![c].pc = "awaits_jwks" ]
    /\ UNCHANGED << _jwks_cache, detector_vars, pair_vars, api_vars >>

\* get_jwks() lines 59-60 and 64-69
JwksFails(c) ==
    /\ calls[c].pc = "awaits_jwks"
    /\ calls' = [ Finished(c, Raised(HTTPException(503, "OIDC provider unavailable")))
                    EXCEPT ![c].fetch_failed = TRUE ]
    /\ UNCHANGED << _jwks_cache, detector_vars, pair_vars, api_vars >>

\* get_jwks() lines 59-62, then get_current_user() lines 104-113
JwksFetched(c) ==
    /\ calls[c].pc = "awaits_jwks"
    /\ \E jwks \in ProviderJwks :
          /\ _jwks_cache' = Some(jwks)
          /\ calls' = [ Finished(c, DecodeOutcome(Get(calls[c].authorization).token, jwks))
                          EXCEPT ![c].jwks = Some(jwks) ]
    /\ UNCHANGED << detector_vars, pair_vars, api_vars >>

\* the next request of a client
NextRequest(c) ==
    /\ calls[c].pc = "done"
    /\ \E a \in Authorizations : calls' = [ calls EXCEPT ![c] = NewCall(a) ]
    /\ UNCHANGED << _jwks_cache, detector_vars, pair_vars, api_vars >>

AuthNext ==
    \E c \in Callers :
        \/ MissingToken(c)
        \/ InvalidAuthorizationScheme(c)
        \/ SettingsMissing(c)
        \/ CachedJwks(c)
        \/ RequestWellKnown(c)
        \/ WellKnownFails(c)
        \/ RequestJwks(c)
        \/ JwksFails(c)
        \/ JwksFetched(c)
        \/ NextRequest(c)

AuthSpec == AuthInit /\ [][AuthNext]_vars

-----------------------------------------------------------------------------
(* database.py and the route handlers of routes/traffic_lights.py and      *)
(* routes/schedules.py, serving one request after the other.               *)

AllTables == { "traffic_lights", "schedules" }

TrafficLightHandlers ==
    { "get_traffic_lights", "create_traffic_light", "get_traffic_light",
      "update_traffic_light", "delete_traffic_light", "delete_all_traffic_lights" }

ScheduleHandlers ==
    { "get_schedules", "create_schedule", "delete_schedule", "get_schedule_pattern" }

Handlers == TrafficLightHandlers \cup ScheduleHandlers

\* the handler's signature has a parameter Depends(get_current_user): so
\* in routes/traffic_lights.py, not in routes/schedules.py
DependsOnCurrentUser(handler) == handler \in TrafficLightHandlers

\* the statements of a handler's try block that touch the connection or
\* may raise, in order.  "require_row": if not existing, close and raise
\* 404; "require_result": if not result, raise 404; "evaluate": statements
\* on the request or on the rows fetched, such as datetime.fromisoformat
Program(handler) ==
    CASE handler = "get_traffic_lights" ->
             << "get_connection", "execute", "close", "evaluate", "return" >>
      [] handler = "create_traffic_light" ->
             << "get_connection", "execute", "close", "evaluate", "return" >>
      [] handler = "get_traffic_light" ->
             << "get_connection", "execute", "close", "require_result", "evaluate",
                "return" >>
      [] handler = "update_traffic_light" ->
             << "get_connection", "execute", "require_row", "execute", "close",
                "evaluate", "return" >>
      [] handler = "delete_traffic_light" ->
             << "get_connection", "execute", "require_row", "execute", "close",
                "return" >>
      [] handler = "delete_all_traffic_lights" ->
             << "get_connection", "execute", "close", "return" >>
      [] handler = "get_schedules" ->
             << "get_connection", "execute", "close", "evaluate", "return" >>
      [] handler = "create_schedule" ->
             << "get_connection", "execute", "require_row", "evaluate", "execute",
                "close", "evaluate", "return" >>
      [] handler = "delete_schedule" ->
             << "get_connection", "execute", "require_row", "execute", "close",
                "return" >>
      [] handler = "get_schedule_pattern" ->
             << "get_connection", "execute", "require_row", "execute", "close",
                "evaluate", "return" >>

\* get_current_user() run to its end for a header, get_jwks() raising
\* (jwks = None) or returning a key set, fetched or cached
CurrentUser(authorization, jwks) ==
    IF Missing(authorization)
    THEN Raised(HTTPException(401, "Missing authentication token"))
    ELSE IF InvalidScheme(authorization)
    THEN Raised(HTTPException(401, "Invalid authorization scheme"))
    ELSE IF jwks = None
    THEN Raised(HTTPException(503, "OIDC provider unavailable"))
    ELSE DecodeOutcome(Get(authorization).token, Get(jwks))

\* _initialize_tables(): the two CREATE TABLE statements.  failing = 0: both
\* run; failing = 1 or 2: that statement raises
TablesAfter(before, failing) ==
    IF failing = 1 THEN before
    ELSE IF failing = 2 THEN before \cup { "traffic_lights" }
    ELSE AllTables

\* _tables_initialized after _initialize_tables(), lines 21-55: message is
\* what str(e) says of the exception, if a statement raised
FlagAfter(flag, failing, message) ==
    IF flag THEN TRUE
    ELSE IF failing = 0 THEN TRUE
    ELSE message # "already exists"

NewRequest(handler, authorization) ==
    [ handler |-> handler, authorization |-> authorization, user |-> None,
      pc |-> 0, conn |-> "none", db_accessed |-> FALSE, response |-> None ]

\* the statement the handler is at
Statement ==
    IF request = None THEN "none"
    ELSE IF Get(request).response # None THEN "responded"
    ELSE IF Get(request).pc = 0 THEN "dependencies"
    ELSE Program(Get(request).handler)[Get(request).pc]

Advance(r) == [ r EXCEPT !.pc = r.pc + 1 ]
Respond(r, status_code) == [ r EXCEPT !.response = Some(status_code) ]

ApiInit ==
    /\ _tables_initialized = FALSE
    /\ tables = {}
    /\ request = None
    /\ DetectorIdle /\ PairIdle /\ AuthIdle

\* a request is routed to a handler
Receive ==
    /\ request = None
    /\ \E h \in Handlers, a \in Authorizations : request' = Some(NewRequest(h, a))
    /\ UNCHANGED << _tables_initialized, tables, detector_vars, pair_vars, auth_vars >>

\* the handler declares no dependency: its body is called at once
NoDependencies ==
    /\ Statement = "dependencies"
    /\ ~DependsOnCurrentUser(Get(request).handler)
    /\ request' = Some(Advance(Get(request)))
    /\ UNCHANGED << _tables_initialized, tables, detector_vars, pair_vars, auth_vars >>

\* Depends(get_current_user) returned the claims: the body is called
DependencyAccepts ==
    /\ Statement = "dependencies"
    /\ DependsOnCurrentUser(Get(request).handler)
    /\ \E jwks \in { None } \cup { Some(keys) : keys \in ProviderJwks } :
          LET outcome == CurrentUser(Get(request).authorization, jwks)
          IN  /\ outcome.class = "payload"
              /\ request' = Some([ Advance(Get(request)) EXCEPT !.user = Some(outcome) ])
    /\ UNCHANGED << _tables_initialized, tables, detector_vars, pair_vars, auth_vars >>

\* Depends(get_current_user) raised: the body is not called
DependencyRejects ==
    /\ Statement = "dependencies"
    /\ DependsOnCurrentUser(Get(request).handler)
    /\ \E jwks \in { None } \cup { Some(keys) : keys \in ProviderJwks } :
          LET outcome == CurrentUser(Get(request).authorization, jwks)
          IN  /\ outcome.class = "HTTPException"
              /\ request' = Some(Respond(Get(request), outcome.status_code))
    /\ UNCHANGED << _tables_initialized, tables, detector_vars, pair_vars, auth_vars >>

\* conn = get_connection(): database.py lines 58-62 with
\* _initialize_tables(), lines 17-55
GetConnection ==
    /\ Statement = "get_connection"
    /\ \E failing \in 0..2, message \in { "already exists", "IO Error" } :
          /\ (failing = 0) => (message = "IO Error")
          /\ tables' = IF _tables_initialized THEN tables
                       ELSE TablesAfter(tables, failing)
          /\ _tables_initialized' = FlagAfter(_tables_initialized, failing, message)
    /\ request' = Some([ Advance(Get(request)) EXCEPT !.conn = "open" ])
    /\ UNCHANGED << detector_vars, pair_vars, auth_vars >>

\* conn.execute(...) returns
Execute ==
    /\ Statement = "execute"
    /\ request' = Some([ Advance(Get(request)) EXCEPT !.db_accessed = TRUE ])
    /\ UNCHANGED << _tables_initialized, tables, detector_vars, pair_vars, auth_vars >>

\* conn.execute(...) raises: except Exception answers 500
ExecuteRaises ==
    /\ Statement = "execute"
    /\ request' = Some([ Respond(Get(request), 500) EXCEPT !.db_accessed = TRUE ])
    /\ UNCHANGED << _tables_initialized, tables, detector_vars, pair_vars, auth_vars >>

\* if not existing: conn.close(), raise HTTPException(404)
RowMissing ==
    /\ Statement = "require_row"
    /\ request' = Some([ Respond(Get(request), 404) EXCEPT !.conn = "closed" ])
    /\ UNCHANGED << _tables_initialized, tables, detector_vars, pair_vars, auth_vars >>

\* if not result: raise HTTPException(404)
ResultMissing ==
    /\ Statement = "require_result"
    /\ request' = Some(Respond(Get(request), 404))
    /\ UNCHANGED << _tables_initialized, tables, detector_vars, pair_vars, auth_vars >>

\* the row asked for exists
RowFound ==
    /\ Statement \in { "require_row", "require_result" }
    /\ request' = Some(Advance(Get(request)))
    /\ UNCHANGED << _tables_initialized, tables, detector_vars, pair_vars, auth_vars >>

\* statements between the database calls run through
Evaluate ==
    /\ Statement = "evaluate"
    /\ request' = Some(Advance(Get(request)))
    /\ UNCHANGED << _tables_initialized, tables, detector_vars, pair_vars, auth_vars >>

\* one of them raises, as datetime.fromisoformat() on a green_start that
\* is no ISO timestamp: except Exception answers 500
EvaluateRaises ==
    /\ Statement = "evaluate"
    /\ request' = Some(Respond(Get(request), 500))
    /\ UNCHANGED << _tables_initialized, tables, detector_vars, pair_vars, auth_vars >>

\* conn.close()
Close ==
    /\ Statement = "close"
    /\ request' = Some([ Advance(Get(request)) EXCEPT !.conn = "closed" ])
    /\ UNCHANGED << _tables_initialized, tables, detector_vars, pair_vars, auth_vars >>

\* the handler returns its response
Return ==
    /\ Statement = "return"
    /\ request' = Some(Respond(Get(request), 200))
    /\ UNCHANGED << _tables_initialized, tables, detector_vars, pair_vars, auth_vars >>

\* the response is sent; the next request may come
Sent ==
    /\ Statement = "responded"
    /\ request' = None
    /\ UNCHANGED << _tables_initialized, tables, detector_vars, pair_vars, auth_vars >>

ApiNext ==
    \/ Receive
    \/ NoDependencies
    \/ DependencyAccepts
    \/ DependencyRejects
    \/ GetConnection
    \/ Execute
    \/ ExecuteRaises
    \/ RowMissing
    \/ ResultMissing
    \/ RowFound
    \/ Evaluate
    \/ EvaluateRaises
    \/ Close
    \/ Return
    \/ Sent

ApiSpec == ApiInit /\ [][ApiNext]_vars

-----------------------------------------------------------------------------
(* Properties *)

\* C1: PatternDetector([], []).analyze() returns without raising, and the
\* dict it returns is exactly has_pattern = False, total_captures = 0: no
\* statistical field (average, min, max, stddev, regularity, cycle,
\* prediction) is present.
C1_EmptyInputReturnsNoPattern ==
    (timestamps = << >> /\ durations = << >> /\ status # "constructed")
        => /\ status = "returned"
           /\ DOMAIN result = { "has_pattern", "total_captures" }
           /\ result.has_pattern = FALSE
           /\ result.total_captures = 0

C1_Witness == timestamps = << >> /\ durations = << >> /\ status = "returned"

\* C2: for a detector built from exactly one measurement, analyze() returns
\* has_pattern = False with total_captures = 1, average = min = max = that
\* measurement's duration, and schedule_regularity None.
C2_SingleMeasurementHasNoPattern ==
    (WellFormed /\ Len(timestamps) = 1 /\ Returned)
        => /\ result.has_pattern = FALSE
           /\ result.total_captures = 1
           /\ result.average_duration_ms = durations[1]
           /\ result.min_duration_ms = durations[1]
           /\ result.max_duration_ms = durations[1]
           /\ result.schedule_regularity = None

\* C3: when two or more measurements, listed in order of start, have no
\* eligible red gap among the adjacent pairs of the start-sorted list,
\* analyze() returns has_pattern = False and no cycle, and still reports
\* total_captures and average_duration_ms.
C3_NoEligibleGapNoPattern ==
    (WellFormed /\ StrictlyAscending /\ Len(timestamps) >= 2 /\ Returned
        /\ EligiblePairs = {})
        => /\ result.has_pattern = FALSE
           /\ Absent("average_cycle_ms")
           /\ result.total_captures = Len(timestamps)
           /\ "average_duration_ms" \in DOMAIN result
           /\ result.average_duration_ms = IntMean(durations)

\* C4: when an eligible red gap exists among measurements listed in order
\* of start, average_cycle_ms is the cycle time
\* (next.start - current.start) of the adjacent pair whose red duration is
\* the smallest among the eligible gaps.
C4_CycleIsThatOfSmallestRedGap ==
    (WellFormed /\ StrictlyAscending /\ Returned /\ EligiblePairs # {})
        => /\ ~Absent("average_cycle_ms")
           /\ \E i \in MinRedPairs : Get(result.average_cycle_ms) = CycleTime(i)

\* C5: whenever analyze() reports a pattern for measurements, listed in
\* order of start, that have an eligible red gap, the result carries
\* red_duration_ms, and average_cycle_ms = red_duration_ms + the green
\* duration of the earlier measurement of the selected pair.
C5_CycleIsRedPlusGreen ==
    (WellFormed /\ StrictlyAscending /\ Returned /\ EligiblePairs # {}
        /\ result.has_pattern = TRUE)
        => /\ ~Absent("red_duration_ms")
           /\ ~Absent("average_cycle_ms")
           /\ \E i \in MinRedPairs :
                 /\ Get(result["red_duration_ms"]) = RedDuration(i)
                 /\ Get(result.average_cycle_ms)
                       = Get(result["red_duration_ms"]) + SortedMeasurements[i].duration_ms

\* C6: for n >= 2 measurements whose starts are equally spaced by d, every
\* duration smaller than d and the red gap below 2 hours, analyze() reports
\* has_pattern = True and average_cycle_ms = d.
C6_EqualSpacingGivesItsCycle ==
    (WellFormed /\ Returned /\ Len(timestamps) >= 2)
        => LET d == timestamps[2] - timestamps[1]
           IN  ( /\ EquallySpaced(d)
                 /\ \A i \in 1..Len(durations) :
                       durations[i] < d /\ d - durations[i] < 2 * MsPerHour )
                   => /\ result.has_pattern = TRUE
                      /\ result.average_cycle_ms = Some(d)

\* C7: whenever a cycle is inferred from measurements listed in order of
\* start, next_green_start is the most recent observed start plus
\* k * cycle_ms for the smallest k >= 1 that makes it strictly later than
\* the clock value read; it is never at or before it.
C7_NextStartIsFirstCycleAfterNow ==
    (WellFormed /\ StrictlyAscending /\ Returned /\ ~Absent("average_cycle_ms")
        /\ Get(result.average_cycle_ms) > 0)
        => /\ ~Absent("next_green_start")
           /\ LET cycle_ms == Get(result.average_cycle_ms)
                  start == Get(result.next_green_start)
                  last == MaxSeq(timestamps)
              IN  /\ start > Get(now)
                  /\ start - last >= cycle_ms
                  /\ (start - last) % cycle_ms = 0
                  /\ start - last = cycle_ms \/ start - cycle_ms <= Get(now)

\* C8: whenever analyze() makes a prediction for measurements listed in
\* order of start, next_green_end = next_green_start + average_duration_ms,
\* the overall average of all durations reported in the same result.
C8_NextEndIsStartPlusAverage ==
    (WellFormed /\ StrictlyAscending /\ Returned /\ ~Absent("next_green_start"))
        => /\ ~Absent("next_green_end")
           /\ Get(result.next_green_end)
                 = Get(result.next_green_start) + result.average_duration_ms

\* C9: if no cycle was inferred (average_cycle_ms absent) from
\* measurements listed in order of start, or there are no measurements,
\* analyze() yields no prediction: next_green_start and next_green_end are
\* both absent.
C9_NoCycleNoPrediction ==
    (WellFormed /\ StrictlyAscending /\ Returned
        /\ (Absent("average_cycle_ms") \/ timestamps = << >>))
        => Absent("next_green_start") /\ Absent("next_green_end")

\* C10: with 3 or more measurements, listed in order of start,
\* schedule_regularity is decided by the whole duration list alone: with
\* r = stdev(durations) / mean(durations) it is "regular" if r < 0.10,
\* "somewhat_regular" if 0.10 <= r < 0.20, and "irregular" otherwise.
C10_RegularityFromAllDurations ==
    (WellFormed /\ StrictlyAscending /\ Returned /\ Len(timestamps) >= 3)
        => LET r == VariancePermille(durations)
           IN  result.schedule_regularity =
                   Some(IF r < 100 THEN "regular"
                        ELSE IF r < 200 THEN "somewhat_regular"
                        ELSE "irregular")

\* C11: in every result of analyze(), schedule_regularity is absent exactly
\* when total_captures < 3; with 3 or more measurements it is one of
\* "regular", "somewhat_regular", "irregular".
C11_RegularityAbsentBelowThree ==
    Returned
        => /\ Absent("schedule_regularity") <=> (result.total_captures < 3)
           /\ (result.total_captures >= 3)
                 => Get(result.schedule_regularity)
                        \in { "regular", "somewhat_regular", "irregular" }

C11_Witness ==
    /\ WellFormed /\ Returned /\ Len(timestamps) = 3
    /\ result.schedule_regularity = Some("irregular")

\* C12: in every result of analyze(), stddev_duration_ms is present if and
\* only if total_captures >= 3; with 1 or 2 measurements it is None.
C12_StddevPresentFromThree ==
    Returned => (~Absent("stddev_duration_ms") <=> (result.total_captures >= 3))

C12_Witness ==
    /\ WellFormed /\ Returned /\ Len(timestamps) = 3
    /\ result.stddev_duration_ms # None
    /\ Get(result.stddev_duration_ms).num > 0

\* C13: for every non-empty list of positive integer durations, the result
\* of analyze() has min_duration_ms <= average_duration_ms <= max_duration_ms.
C13_AverageBetweenMinAndMax ==
    (Returned /\ timestamps # << >>)
        => /\ result.min_duration_ms <= result.average_duration_ms
           /\ result.average_duration_ms <= result.max_duration_ms

C13_Witness ==
    /\ WellFormed /\ Returned /\ timestamps # << >>
    /\ durations[1] > result.average_duration_ms
    /\ result.min_duration_ms < result.average_duration_ms
    /\ result.average_duration_ms < result.max_duration_ms

\* C14, as stated: average_duration_ms is the arithmetic mean of the
\* durations rounded to the nearest integer, also when the fractional part
\* of the mean is 0.5 or more: it is within one half of the mean.
C14_AverageIsRoundedMean ==
    (WellFormed /\ Returned /\ timestamps # << >>)
        => LET n == Len(durations)
               S == SumSeq(durations)
               avg == result.average_duration_ms
           IN  2 * (S - n * avg) <= n /\ 2 * (n * avg - S) <= n

\* C14, amended: average_duration_ms is the arithmetic mean of the
\* durations cut to its integer part (rounded down): a fractional part of
\* 0.5 or more is dropped, never rounded up.
C14_AverageIsTruncatedMean ==
    (Returned /\ timestamps # << >>)
        => LET n == Len(durations)
               S == SumSeq(durations)
               avg == result.average_duration_ms
           IN  n * avg <= S /\ S < n * (avg + 1)

C14_Witness ==
    /\ WellFormed /\ Returned /\ timestamps # << >>
    /\ 2 * (SumSeq(durations) - Len(durations) * result.average_duration_ms)
           > Len(durations)

\* C15: a detector given timestamp and duration lists of different
\* lengths is rejected with an error before any analysis: analyze() never
\* returns a result for it.
C15_InvalidInputIsRejected ==
    (Len(timestamps) # Len(durations)) => status # "returned"

\* C16: for every well-formed input (lists of equal length, positive
\* durations, one time axis, in either order, any count, overlapping or
\* identical start times included), analyze() returns a result and never
\* raises.
C16_WellFormedNeverRaises ==
    (WellFormed /\ status # "constructed")
        => status = "returned" /\ result # None

C16_Witness ==
    /\ WellFormed /\ Returned /\ Len(timestamps) >= 3
    /\ \E i \in 1..(Len(timestamps) - 1) : timestamps[i] = timestamps[i + 1]
    /\ \E i \in 1..(Len(timestamps) - 1) : timestamps[i] > timestamps[i + 1]

\* C17: for a detector with an inferable pattern,
\* get_daily_timeline(reference_date, hours) returns intervals ordered by
\* start, each ending where the next starts, all inside
\* [window_start, window_end), the last one clipped to the window end.
C17_TimelineContiguousInWindow ==
    (timeline # None /\ Inferable)
        => ContiguousInWindow(Get(timeline).intervals)

\* C18: for a detector with an inferable pattern the timeline's
\* states alternate green, red, green, ... beginning with green, every
\* entry has start_time, end_time and a state of green or red, and the
\* timeline of a 1-hour window is non-empty and has strictly fewer
\* intervals than the timeline of the 24-hour window of the same date.
C18_OneHourTimelineNonEmptyAndShorter ==
    (timeline # None /\ Inferable)
        => /\ AlternatingFromGreen(Get(timeline).intervals)
           /\ (Get(timeline).hours = 1)
                 => /\ Len(Get(timeline).intervals) > 0
                    /\ Len(Get(timeline).intervals)
                          < Len(get_daily_timeline(timestamps, durations,
                                                   Get(timeline).reference_date, 24))

C20_ValidationResultConsistent ==
    (validation # None)
        => LET v == Get(validation).outcome
           IN  /\ 0 <= v.matches /\ v.matches <= v.total
               /\ v.total = Len(timestamps)
               /\ (v.total > 0) => v.match_rate[1] * v.total = v.matches * v.match_rate[2]
               /\ v.is_valid <=> (10 * v.match_rate[1] >= 7 * v.match_rate[2])
               /\ (Len(timestamps) < 2 \/ ~Inferable)
                     => /\ v.is_valid = FALSE
                        /\ v.matches = 0
                        /\ v.match_rate = << 0, 1 >>

\* two of three measurements match: a rate below 0.70
C20_Witness ==
    /\ validation # None /\ Inferable /\ Len(timestamps) = 3
    /\ Get(validation).outcome.matches = 2
    /\ Get(validation).outcome.is_valid = FALSE

\* C21: the result of analyze() is a function of the measurement list and
\* of an explicitly supplied current time only: two runs on equal
\* measurements return equal results whatever the ambient wall clock is,
\* because no helper reads the ambient clock.
C21_ResultIndependentOfAmbientClock ==
    [][ (Returned /\ status' = "returned") => result' = result ]_vars

\* C24: the inferred cycle does not depend on the order of the input: a
\* permutation of the measurements gives the same has_pattern and the same
\* average_cycle_ms as the list sorted by start time, and a pair supplied
\* in descending order never contributes a negative cycle time.
C24_CycleIndependentOfOrder ==
    (Returned /\ WellFormed /\ timestamps # << >>)
        => LET sorted == SortedMeasurements
               in_order ==
                   AnalyzeResult([ i \in 1..Len(sorted) |-> sorted[i].start ],
                                 [ i \in 1..Len(sorted) |-> sorted[i].duration_ms ],
                                 total_captures, Get(now))
           IN  /\ result.has_pattern = in_order.has_pattern
               /\ result.average_cycle_ms = in_order.average_cycle_ms
               /\ (result.average_cycle_ms # None)
                     => Get(result.average_cycle_ms) >= 0

\* C26: analyze() leaves the detector as it was: timestamps and durations
\* hold the same elements in the same order, total_captures is unchanged,
\* and a repeated call under the same clock value returns an equal result.
C26_AnalyzeLeavesDetectorUnchanged ==
    [][ /\ timestamps' = timestamps
        /\ durations' = durations
        /\ total_captures' = total_captures
        /\ (Returned /\ status' = "returned" /\ now' = now) => result' = result
      ]_vars

\* analyze() has returned for a list given latest first, which a sort in
\* place would have reordered
C26_Witness ==
    /\ Returned /\ WellFormed /\ Len(timestamps) = 3
    /\ timestamps[1] > timestamps[2] /\ timestamps[2] > timestamps[3]
    /\ result.has_pattern

\* C25: for the same stored measurements, ordered by green_start, and the
\* same current time, GET /api/traffic-lights/{id}/pattern answers the
\* has_pattern, average_duration_ms, average_cycle_ms, schedule_regularity,
\* next_green_start and next_green_end that PatternDetector.analyze()
\* returns.
C25_HandlerAgreesWithAnalyze ==
    (Returned /\ schedule_pattern # None)
        => LET body == Get(schedule_pattern)
           IN  /\ body.has_pattern = result.has_pattern
               /\ body.has_pattern
                     => /\ body.average_duration_ms = result.average_duration_ms
                        /\ body.average_cycle_ms = result.average_cycle_ms
                        /\ body.schedule_regularity = result.schedule_regularity
                        /\ body.next_green_start = result.next_green_start
                        /\ body.next_green_end = result.next_green_end

\* C22: two PatternDetector instances analysed at the same time return,
\* under every interleaving of their steps, the results they return when
\* run one after the other: each result is the one analyze() computes from
\* that instance's own timestamps and durations alone.
C22_ConcurrentAnalysesAsSequential ==
    \A i \in DOMAIN analyses :
        (analyses[i].pc = "done")
            => Get(analyses[i].result)
                   = IF analyses[i].timestamps = << >> THEN EmptyResult
                     ELSE AnalyzeResult(analyses[i].timestamps, analyses[i].durations,
                                        analyses[i].total_captures, Get(analyses[i].clock))

\* both analyses are done, on different measurements, with different results
C22_Witness ==
    /\ analyses # << >>
    /\ analyses[1].pc = "done" /\ analyses[2].pc = "done"
    /\ Len(analyses[1].timestamps) = 2 /\ Len(analyses[2].timestamps) = 2
    /\ analyses[1].timestamps # analyses[2].timestamps
    /\ analyses[1].clock = analyses[2].clock
    /\ analyses[1].result # analyses[2].result

\* C27: get_current_user() returns claims only when the Authorization
\* header is present, its scheme is "bearer" in any letter case with a
\* non-empty token, and jwt.decode succeeded against the JWKS; every other
\* path raises HTTPException 401, except a failed JWKS fetch, which
\* surfaces as 503 and is never turned into a 401 or into success.
C27_ClaimsOnlyForVerifiedBearer ==
    \A c \in DOMAIN calls :
        (calls[c].pc = "done")
            => LET call == calls[c]
                   outcome == Get(call.outcome)
               IN  /\ outcome.class \in { "payload", "HTTPException" }
                   /\ (outcome.class = "payload")
                         => /\ ~Missing(call.authorization)
                            /\ Lower(Get(call.authorization).scheme) = "bearer"
                            /\ Get(call.authorization).token # ""
                            /\ call.jwks # None
                            /\ Decodes(Get(call.authorization).token, Get(call.jwks))
                            /\ outcome.token = Get(call.authorization).token
                   /\ (outcome.class = "HTTPException")
                         => outcome.status_code = IF call.fetch_failed THEN 503 ELSE 401
                   /\ call.fetch_failed => outcome.class = "HTTPException"

\* one call returned claims for a bearer scheme in capitals, another was
\* answered 503 after a failed fetch
C27_Witness ==
    /\ calls # << >>
    /\ \E c \in DOMAIN calls :
          /\ calls[c].pc = "done"
          /\ Get(calls[c].outcome).class = "payload"
          /\ Get(calls[c].authorization).scheme = "BEARER"
    /\ \E c \in DOMAIN calls :
          /\ calls[c].pc = "done"
          /\ calls[c].fetch_failed
          /\ Get(calls[c].outcome).status_code = 503

\* C28: across any sequence and interleaving of get_jwks() calls,
\* _jwks_cache is written only by a call whose two provider requests both
\* succeeded; once it is not None it is never changed or cleared, and a
\* call that starts then uses it without contacting the provider; a
\* failed fetch leaves the cache as it was.
C28_JwksCacheWrittenOnce ==
    [][ /\ (_jwks_cache # None) => (_jwks_cache' = _jwks_cache)
        /\ (_jwks_cache' # _jwks_cache)
              => \E c \in DOMAIN calls :
                    /\ calls[c].pc = "awaits_jwks"
                    /\ calls'[c].pc = "done"
                    /\ calls'[c].jwks = _jwks_cache'
        /\ \A c \in DOMAIN calls :
              /\ (calls[c].pc = "called" /\ _jwks_cache # None /\ calls'[c].pc # "called")
                    => /\ ~calls'[c].fetching
                       /\ calls'[c].jwks \in { None, _jwks_cache }
              /\ (calls'[c].fetch_failed /\ ~calls[c].fetch_failed)
                    => _jwks_cache' = _jwks_cache
      ]_vars

\* C23: no handler serving measurement or pattern data (get_schedules,
\* create_schedule, delete_schedule, get_schedule_pattern) opens a
\* connection or runs a statement unless get_current_user accepted the
\* request's bearer token, exactly as for the traffic-light handlers.
C23_DatabaseOnlyBehindAuthentication ==
    (request # None /\ (Get(request).conn # "none" \/ Get(request).db_accessed))
        => Get(request).user # None

\* C29: every connection get_connection() returns has both tables:
\* _tables_initialized is True only after both CREATE TABLE statements
\* ran, and a failed initialization is tried again by the next
\* get_connection() instead of being recorded as done.
C29_ConnectionsHaveBothTables ==
    /\ _tables_initialized => (tables = AllTables)
    /\ (request # None /\ Get(request).conn = "open") => (tables = AllTables)

\* C30: a handler that opened a connection has closed it when the request
\* is answered, whichever way the handler was left: by return, by a 404,
\* or by a statement or a timestamp parse that raised and was answered 500.
C30_ConnectionClosedOnEveryExit ==
    (request # None /\ Get(request).response # None)
        => Get(request).conn # "open"

====
